---- MODULE Spec2Model ----
(***************************************************************************)
(* Order workflow of the shoe-store backend: the Product, Order and Cart   *)
(* collections, createOrder as a multi-step session transaction, and the   *)
(* status, delete and catalog handlers around it.                          *)
(*                                                                         *)
(* Money is fixed-point: one unit is 1/Scale of a currency unit, so the    *)
(* 8% tax and the 0.01 tolerance of the pre-save hook are exact integers.  *)
(* Sizes are tagged values: "s9" is the string "9", "n9" the number 9.     *)
(***************************************************************************)
EXTENDS Integers, Sequences, FiniteSets, TLC

----------------------------------------------------------------------------
(* Bounds of the model *)

MaxStock == 2        \* largest stock an admin request sets
MaxReqQty == 2       \* largest in-range quantity a request line asks for
MaxLines == 2        \* most lines in one createOrder request
MaxOrders == 1       \* most orders stored or being placed at a time
MaxCartLines == 2    \* most lines of a cart an add request reads and extends
MaxCarts == 3        \* most cart documents stored or being inserted

(* Program constants *)

Scale == 1000
MaxQuantity == 10
TaxPercent == 8
FreeShippingOver == 100 * Scale
FlatShipping == 10 * Scale
Tolerance == Scale \div 100

Prices == {Scale \div 10, 60 * Scale}

ProductIds == {"p1", "p2"}
Slots == {"t1", "t2"}
Users == {"u1", "u2"}
Requesters ==
    {[id |-> "u1", role |-> "user"], [id |-> "u2", role |-> "user"],
     [id |-> "a1", role |-> "admin"]}

\* the accounts of the initial state
Accounts == {r.id : r \in Requesters}

\* the User collection of the initial state
SeedUsers ==
    [u \in Accounts |-> (CHOOSE r \in Requesters : r.id = u).role]

\* ids of accounts registered later
NewAccounts == {"u3", "u4"}

AddSlots == {"c1", "c2"}

validStatuses == {"Pending", "Processing", "Shipped", "Delivered", "Cancelled"}

None == "none"

----------------------------------------------------------------------------
(* Pure helpers *)

Abs(x) == IF x < 0 THEN -x ELSE x

\* total quantity of product p over a sequence of lines
RECURSIVE LineQty(_, _)
LineQty(lines, p) ==
    IF lines = <<>> THEN 0
    ELSE (IF Head(lines).product_id = p THEN Head(lines).quantity ELSE 0)
         + LineQty(Tail(lines), p)

\* sum of price * quantity over a sequence of lines
RECURSIVE LinesTotal(_)
LinesTotal(lines) ==
    IF lines = <<>> THEN 0
    ELSE Head(lines).price * Head(lines).quantity + LinesTotal(Tail(lines))

\* sizes a product offers (attributes.sizes is Mixed: strings or numbers)
SizesOf(p) == IF p = "p1" THEN {"s9", "s10"} ELSE {"n9"}

\* the needles of the catch block that a product's name contains
NameNeedles(p) == IF p = "p1" THEN {} ELSE {"Invalid"}

\* String cast of the Order and CartItem schemas' size path
CastSizeToString(size) == IF size = "n9" THEN "s9" ELSE size

\* input.trim().replace(/[<>]/g, '') on a string, any other value as it is;
\* "s9sp" is the string " 9"
sanitizeInput(input) == IF input = "s9sp" THEN "s9" ELSE input

calculateOrderTotalsFreeAtThreshold(subtotal) ==
    LET shipping == IF subtotal >= FreeShippingOver THEN 0 ELSE FlatShipping
        tax == (subtotal * TaxPercent) \div 100
    IN  [subtotal |-> subtotal, shipping |-> shipping, tax |-> tax,
         total |-> subtotal + shipping + tax]

calculateOrderTotals(subtotal) ==
    LET shipping == IF subtotal > FreeShippingOver THEN 0 ELSE FlatShipping
        tax == (subtotal * TaxPercent) \div 100
    IN  [subtotal |-> subtotal, shipping |-> shipping, tax |-> tax,
         total |-> subtotal + shipping + tax]

\* OrderSchema.pre('save')
preSave(order) ==
    LET calculatedTotal == order.subtotal + order.shipping
    IN  IF Abs(order.total_amount - calculatedTotal) > Tolerance
        THEN [order EXCEPT !.total_amount = calculatedTotal]
        ELSE order

\* the catch block of createOrder: the status chosen from the error message
ErrorStatus(message) ==
    IF "Invalid" \in message \/ "required" \in message THEN 400
    ELSE IF "not found" \in message \/ "not available" \in message THEN 404
    ELSE IF "Insufficient" \in message \/ "sold out" \in message THEN 409
    ELSE 500

----------------------------------------------------------------------------
(* Requests *)

\* one line of a createOrder body: quantity 0 and size None stand for a
\* missing (falsy) field, "bad" for a string that is no ObjectId
ValidItems ==
    {[product_id |-> p, quantity |-> q,
      size |-> IF p = "p1" THEN "s9" ELSE "n9"] :
        p \in ProductIds, q \in 1..MaxReqQty}

MalformedItems ==
    {[product_id |-> "p1", quantity |-> 0, size |-> "s9"],
     [product_id |-> "p1", quantity |-> MaxQuantity + 1, size |-> "s9"],
     [product_id |-> "bad", quantity |-> 1, size |-> "s9"],
     [product_id |-> "p1", quantity |-> 1, size |-> None]}

\* a size the product does not offer
WrongSizeItems == {[product_id |-> "p1", quantity |-> 1, size |-> "n9"]}

\* bodies whose every line is well formed
ValidBodies == UNION {[1..n -> ValidItems] : n \in 1..MaxLines}

\* bodies that fail a check on their last line, alone or after a line that
\* is well formed; the empty body fails before the transaction
FailingBodies ==
    {<<>>} \cup {<<m>> : m \in MalformedItems \cup WrongSizeItems}
    \cup {<<v, m>> : v \in {x \in ValidItems : x.quantity = 1},
                    m \in MalformedItems \cup WrongSizeItems}

Bodies == ValidBodies \cup FailingBodies

----------------------------------------------------------------------------
(* State *)

VARIABLES
    Product,     \* the Product collection: id -> [quantity, price]
    Order,       \* the Order collection: id -> order document
    Cart,        \* the Cart collection in insertion order: [user, items, total]
    productIds,  \* product ids ever issued
    slot,        \* each createOrder request in flight: position and locals
    stale,       \* per slot: documents committed by others since its snapshot
    Product0,    \* the catalog of the initial state
    User,        \* the User collection: id -> role of the accounts that exist
    addReq       \* each addItemToCart request in flight: position and locals

vars == <<Product, Order, Cart, productIds, slot, stale, Product0, User, addReq>>

EmptyFcn == [x \in {} |-> 0]

NoView == [Product |-> EmptyFcn, Cart |-> <<>>]
NoRes == [status |-> 0, error |-> None]

IdleSlot ==
    [pc |-> "idle", user |-> None, products |-> <<>>, total_amount |-> 0, i |-> 1,
     orderProducts |-> <<>>, calculatedSubtotal |-> 0, newOrder |-> <<>>,
     view |-> NoView, wrote |-> {}, res |-> NoRes]

IdleAdd ==
    [pc |-> "idle", user |-> None, cart |-> 0, op |-> None, index |-> 0,
     item |-> <<>>, quantity |-> 0, total |-> 0, staleV |-> FALSE, res |-> 0]

Active(t) == slot[t].pc \in {"loop", "save", "clear", "commit"}

\* document keys
PKey(p) == <<"Product", p>>
CKey(c) == <<"Cart", c>>

\* Cart.findOne({ user }): the first cart of the user, 0 when there is none
findOne(carts, user) ==
    IF \E c \in DOMAIN carts : carts[c].user = user
    THEN CHOOSE c \in DOMAIN carts :
            /\ carts[c].user = user
            /\ \A d \in DOMAIN carts : carts[d].user = user => c <= d
    ELSE 0

\* a document another session has written and not yet committed
LockedByOther(t, key) ==
    \E o \in Slots \ {t} : Active(o) /\ key \in slot[o].wrote

Locked(key) == \E o \in Slots : Active(o) /\ key \in slot[o].wrote

----------------------------------------------------------------------------
(* The store's session transactions *)

\* an aborted session transaction discards its uncommitted writes
withTransactionAbortLeaky(committed, uncommitted) == uncommitted

withTransactionAbort(committed, uncommitted) == committed

\* a session write meets a document committed since the session's snapshot,
\* or one written by another open session: TransientTransactionError
WriteConflictNever(t, key) == FALSE

WriteConflict(t, key) == key \in stale[t] \/ LockedByOther(t, key)

\* the Product collection with the session's uncommitted writes applied
ProductWritesWholeView(t) ==
    [p \in DOMAIN Product |->
        IF p \in DOMAIN slot[t].view.Product
        THEN slot[t].view.Product[p] ELSE Product[p]]

ProductWrites(t) ==
    [p \in DOMAIN Product |->
        IF PKey(p) \in slot[t].wrote /\ p \in DOMAIN slot[t].view.Product
        THEN slot[t].view.Product[p] ELSE Product[p]]

\* Cart.findOneAndUpdate({ user }, { items: [], total: 0 })
ClearedCartItemsOnly(carts, u) ==
    [c \in DOMAIN carts |->
        IF c = findOne(carts, u)
        THEN [carts[c] EXCEPT !.items = <<>>] ELSE carts[c]]

ClearedCart(carts, u) ==
    [c \in DOMAIN carts |->
        IF c = findOne(carts, u)
        THEN [carts[c] EXCEPT !.items = <<>>, !.total = 0] ELSE carts[c]]

\* the Cart collection with the session's uncommitted write applied
CartWrites(t) ==
    IF CKey(findOne(Cart, slot[t].user)) \in slot[t].wrote
    THEN ClearedCart(Cart, slot[t].user) ELSE Cart

\* the _id of a new document: an id no stored order holds
NewOrderId == CHOOSE o \in 1..(MaxOrders + 1) : o \notin DOMAIN Order

\* the Order collection with the session's uncommitted insert applied
OrderWrites(t) ==
    IF slot[t].newOrder = <<>> THEN Order
    ELSE [o \in DOMAIN Order \cup {NewOrderId} |->
            IF o = NewOrderId THEN slot[t].newOrder[1] ELSE Order[o]]

\* every other open session now holds a snapshot older than these documents
MarkStale(t, keys) ==
    [o \in Slots |-> IF o # t /\ Active(o) THEN stale[o] \cup keys ELSE stale[o]]

----------------------------------------------------------------------------
(* createOrder *)

\* { _id, quantity: { $gte: quantity } }, { $inc: { quantity: -quantity } }
DecrementNothing(doc, quantity) == doc

DecrementOffByOne(doc, quantity) == [doc EXCEPT !.quantity = @ - 1]

Decrement(doc, quantity) == [doc EXCEPT !.quantity = @ - quantity]

\* orderProducts.push({ product_id, quantity, size, price: currentPrice })
OrderLineNoPrice(item, quantity, currentPrice) ==
    [product_id |-> item.product_id, quantity |-> quantity,
     size |-> CastSizeToString(item.size), price |-> 0]

OrderLine(item, quantity, currentPrice) ==
    [product_id |-> item.product_id, quantity |-> quantity,
     size |-> CastSizeToString(item.size), price |-> currentPrice]

\* the error message thrown for a line, as the set of needles it contains;
\* the empty sequence when the line passes every check (quantities are
\* integers here, on which parseInt changes nothing)
LineError(item, catalog) ==
    IF item.product_id = None \/ item.quantity = 0 \/ item.size = None
    THEN <<[error |-> "MissingField", message |-> {}]>>
    ELSE IF item.product_id \notin ProductIds
    THEN <<[error |-> "InvalidId", message |-> {"Invalid"}]>>
    ELSE IF item.quantity <= 0 \/ item.quantity > MaxQuantity
    THEN <<[error |-> "InvalidQuantity", message |-> {"Invalid"}]>>
    ELSE IF item.product_id \notin DOMAIN catalog
    THEN <<[error |-> "NotFound", message |-> {"not found"}]>>
    ELSE IF item.size \notin SizesOf(item.product_id)
    THEN <<[error |-> "SizeNotAvailable",
            message |-> {"not available"} \cup NameNeedles(item.product_id)]>>
    ELSE IF catalog[item.product_id].quantity < item.quantity
    THEN <<[error |-> "Insufficient",
            message |-> {"Insufficient"} \cup NameNeedles(item.product_id)]>>
    ELSE <<>>

\* the request ends in the catch block: the transaction is aborted
Throw(t, err) ==
    /\ slot' = [slot EXCEPT ![t] =
                  [IdleSlot EXCEPT !.pc = "done", !.i = slot[t].i,
                          !.res = [status |-> ErrorStatus(err.message),
                                   error |-> err.error]]]
    /\ Product' = withTransactionAbort(Product, ProductWrites(t))
    /\ Order' = withTransactionAbort(Order, OrderWrites(t))
    /\ Cart' = withTransactionAbort(Cart, CartWrites(t))
    /\ stale' = [stale EXCEPT ![t] = {}]
    /\ UNCHANGED <<productIds, Product0, User, addReq>>

\* withTransaction runs the callback again after a TransientTransactionError
Retry(t) ==
    /\ slot' = [slot EXCEPT ![t].pc = "begin", ![t].view = NoView,
                            ![t].wrote = {}, ![t].newOrder = <<>>,
                            ![t].i = 1, ![t].orderProducts = <<>>,
                            ![t].calculatedSubtotal = 0]
    /\ stale' = [stale EXCEPT ![t] = {}]
    /\ UNCHANGED <<Product, Order, Cart, productIds, Product0, User, addReq>>

OpenSlots == {t \in Slots : slot[t].pc \notin {"idle", "done", "off"}}

\* POST /orders: the body check before the transaction
createOrder(t, user, products, total_amount) ==
    /\ user \in DOMAIN User
    /\ slot[t].pc \in {"idle", "done"}
    /\ Cardinality(DOMAIN Order) + Cardinality(OpenSlots) < MaxOrders
    /\ slot' = [slot EXCEPT ![t] =
                  IF products = <<>>
                  THEN [IdleSlot EXCEPT !.pc = "done",
                          !.res = [status |-> 400, error |-> "EmptyProducts"]]
                  ELSE [IdleSlot EXCEPT !.pc = "begin", !.user = user,
                          !.products = products,
                          !.total_amount = total_amount]]
    /\ UNCHANGED <<Product, Order, Cart, productIds, stale,
                   Product0, User, addReq>>

\* the transaction's snapshot, taken when the callback starts
startTransaction(t) ==
    /\ slot[t].pc = "begin"
    /\ slot' = [slot EXCEPT ![t].pc = "loop",
                            ![t].view = [Product |-> Product, Cart |-> Cart]]
    /\ stale' = [stale EXCEPT ![t] = {}]
    /\ UNCHANGED <<Product, Order, Cart, productIds, Product0, User, addReq>>

\* one pass of the for loop over req.body.products
processItem(t) ==
    /\ slot[t].pc = "loop"
    /\ LET item == slot[t].products[slot[t].i]
           catalog == slot[t].view.Product
           err == LineError(item, catalog)
           quantity == item.quantity
           product == catalog[item.product_id]
       IN  IF err # <<>> THEN Throw(t, err[1])
           ELSE IF WriteConflict(t, PKey(item.product_id)) THEN Retry(t)
           ELSE IF ~(product.quantity >= quantity)
           THEN Throw(t, [error |-> "SoldOut",
                          message |-> {"sold out"}
                                      \cup NameNeedles(item.product_id)])
           ELSE /\ slot' = [slot EXCEPT
                     ![t].view.Product[item.product_id] =
                         Decrement(product, quantity),
                     ![t].wrote = @ \cup {PKey(item.product_id)},
                     ![t].calculatedSubtotal = @ + product.price * quantity,
                     ![t].orderProducts =
                         Append(@, OrderLine(item, quantity, product.price)),
                     ![t].i = @ + 1,
                     ![t].pc = IF slot[t].i = Len(slot[t].products)
                               THEN "save" ELSE "loop"]
                /\ UNCHANGED <<Product, Order, Cart, productIds, stale, Product0, User, addReq>>

\* the totals, the warning on a client total (0: none given) that differs
\* from the subtotal, and new Order({...})
newOrderTrustingClient(userId, orderProducts, calculatedSubtotal, total_amount) ==
    LET orderTotals == calculateOrderTotals(calculatedSubtotal)
    IN  [user_id |-> userId,
         products |-> orderProducts,
         total_amount |-> IF total_amount # 0 THEN total_amount
                          ELSE orderTotals.total,
         subtotal |-> orderTotals.subtotal,
         shipping |-> orderTotals.shipping,
         order_status |-> "Pending"]

newOrder(userId, orderProducts, calculatedSubtotal, total_amount) ==
    LET orderTotals == calculateOrderTotals(calculatedSubtotal)
        warns == total_amount # 0
                 /\ Abs(calculatedSubtotal - total_amount) > Tolerance
    IN  [user_id |-> userId,
         products |-> orderProducts,
         total_amount |-> orderTotals.total,
         subtotal |-> orderTotals.subtotal,
         shipping |-> orderTotals.shipping,
         order_status |-> "Pending"]

\* newOrder.save({ session }); the store may fail
saveOrder(t, fails) ==
    /\ slot[t].pc = "save"
    /\ IF fails THEN Throw(t, [error |-> "StoreError", message |-> {}])
       ELSE /\ slot' = [slot EXCEPT
                 ![t].newOrder =
                     <<preSave(newOrder(slot[t].user, slot[t].orderProducts,
                                        slot[t].calculatedSubtotal,
                                        slot[t].total_amount))>>,
                 ![t].pc = "clear"]
            /\ UNCHANGED <<Product, Order, Cart, productIds, stale, Product0, User, addReq>>

\* Cart.findOneAndUpdate({ user: userId }, ..., { session })
clearUserCart(t, fails) ==
    /\ slot[t].pc = "clear"
    /\ IF fails THEN Throw(t, [error |-> "StoreError", message |-> {}])
       ELSE IF findOne(slot[t].view.Cart, slot[t].user) = 0
       THEN /\ slot' = [slot EXCEPT ![t].pc = "commit"]
            /\ UNCHANGED <<Product, Order, Cart, productIds, stale, Product0, User, addReq>>
       ELSE IF WriteConflict(t, CKey(findOne(slot[t].view.Cart, slot[t].user)))
       THEN Retry(t)
       ELSE /\ slot' = [slot EXCEPT
                 ![t].pc = "commit",
                 ![t].wrote = @ \cup {CKey(findOne(slot[t].view.Cart,
                                                   slot[t].user))}]
            /\ UNCHANGED <<Product, Order, Cart, productIds, stale, Product0, User, addReq>>

\* the transaction commits and the handler answers 201
commitOrder(t) ==
    /\ slot[t].pc = "commit"
    /\ Product' = ProductWrites(t)
    /\ Order' = OrderWrites(t)
    /\ Cart' = CartWrites(t)
    /\ stale' = [MarkStale(t, slot[t].wrote) EXCEPT ![t] = {}]
    /\ slot' = [slot EXCEPT ![t] =
                  [IdleSlot EXCEPT !.pc = "done", !.i = slot[t].i,
                          !.res = [status |-> 201, error |-> None]]]
    /\ UNCHANGED <<productIds, Product0, User, addReq>>

----------------------------------------------------------------------------
(* Order status and deletion: each a session transaction of one order,    *)
(* serialised by the store because every one of them writes the order     *)

StockCap == 2 * MaxStock

RestorableAlways == validStatuses

\* ['Pending', 'Processing'].includes(order.order_status)
Restorable == {"Pending", "Processing"}

\* the loop of Product.updateOne({ _id }, { $inc: { quantity } }) over the
\* first n lines; a line whose product is gone is skipped
RECURSIVE RestoreStockOnce(_, _, _)
RestoreStockOnce(catalog, lines, n) ==
    IF n = 0 THEN catalog
    ELSE LET item == lines[n]
             before == RestoreStockOnce(catalog, lines, n - 1)
         IN  IF item.product_id \in DOMAIN before
                /\ \A j \in 1..(n - 1) : lines[j].product_id # item.product_id
             THEN [before EXCEPT ![item.product_id].quantity = @ + item.quantity]
             ELSE before

RECURSIVE RestoreStock(_, _, _)
RestoreStock(catalog, lines, n) ==
    IF n = 0 THEN catalog
    ELSE LET item == lines[n]
             before == RestoreStock(catalog, lines, n - 1)
         IN  IF item.product_id \in DOMAIN before
             THEN [before EXCEPT ![item.product_id].quantity = @ + item.quantity]
             ELSE before

LineKeys(lines) ==
    {PKey(lines[j].product_id) : j \in 1..Len(lines)}

CanWrite(keys) == \A k \in keys : ~Locked(k)

WithinCap(catalog) == \A p \in DOMAIN catalog : catalog[p].quantity <= StockCap

StatusInputs == validStatuses \cup {"Refunded", None}

\* order.order_status = status
setStatusResetShipping(order, status) ==
    [order EXCEPT !.order_status = status, !.shipping = 0]

setStatus(order, status) == [order EXCEPT !.order_status = status]

\* the status code updateOrderStatus answers with; failAt > 0: the store
\* fails at that write of the transaction (the last write is order.save)
updateOrderStatusCode(orderId, status, failAt) ==
    IF status = None \/ status \notin validStatuses THEN 400
    ELSE IF orderId \notin DOMAIN Order THEN 404
    ELSE IF failAt > 0 THEN 500
    ELSE 200

\* PUT /orders/:id/status (admin)
updateOrderStatus(orderId, status, failAt) ==
    /\ IF updateOrderStatusCode(orderId, status, failAt) \in {400, 404}
       THEN failAt = 0 /\ UNCHANGED <<Product, Order, stale>>
       ELSE LET order == Order[orderId]
                oldStatus == order.order_status
                restores == status = "Cancelled" /\ oldStatus \in Restorable
                nWrites == IF restores THEN Len(order.products) ELSE 0
                done == IF failAt = 0 THEN nWrites ELSE failAt - 1
                restored == RestoreStock(Product, order.products, done)
                keys == IF restores THEN LineKeys(order.products) ELSE {}
            IN  /\ failAt <= nWrites + 1
                /\ CanWrite(keys)
                /\ WithinCap(restored)
                /\ IF failAt > 0
                   THEN /\ Product' = withTransactionAbort(Product, restored)
                        /\ UNCHANGED <<Order, stale>>
                   ELSE /\ Product' = restored
                        /\ Order' = [Order EXCEPT ![orderId] =
                                 preSave(setStatus(order, status))]
                        /\ stale' = MarkStale(None, keys)
    /\ UNCHANGED <<Cart, productIds, slot, Product0, User, addReq>>

\* the status code deleteOrder answers with
deleteOrderCodeNoOwnerCheck(requester, orderId, failAt) ==
    IF orderId \notin DOMAIN Order THEN 404
    ELSE IF failAt > 0 THEN 500
    ELSE 200

deleteOrderCode(requester, orderId, failAt) ==
    IF orderId \notin DOMAIN Order THEN 404
    ELSE IF requester.role # "admin" /\ Order[orderId].user_id # requester.id
    THEN 403
    ELSE IF failAt > 0 THEN 500
    ELSE 200

\* DELETE /orders/:id (any authenticated user)
deleteOrder(requester, orderId, failAt) ==
    /\ requester.id \in DOMAIN User
    /\ IF deleteOrderCode(requester, orderId, failAt) \in {404, 403}
       THEN failAt = 0 /\ UNCHANGED <<Product, Order, stale>>
       ELSE LET order == Order[orderId]
                restores == order.order_status \in Restorable
                nWrites == IF restores THEN Len(order.products) ELSE 0
                done == IF failAt = 0 THEN nWrites ELSE failAt - 1
                restored == RestoreStock(Product, order.products, done)
                keys == IF restores THEN LineKeys(order.products) ELSE {}
            IN  /\ failAt <= nWrites + 1
                /\ CanWrite(keys)
                /\ WithinCap(restored)
                /\ IF failAt > 0
                   THEN /\ Product' = withTransactionAbort(Product, restored)
                        /\ UNCHANGED <<Order, stale>>
                   ELSE /\ Product' = restored
                        /\ Order' = [o \in DOMAIN Order \ {orderId} |-> Order[o]]
                        /\ stale' = MarkStale(None, keys)
    /\ UNCHANGED <<Cart, productIds, slot, Product0, User, addReq>>

\* the status code getOrderById answers with: populate('user_id') leaves null
\* for an owner whose account is gone, and order.user_id._id then throws
getOrderByIdCode(requester, orderId) ==
    LET owner == IF Order[orderId].user_id \in DOMAIN User
                 THEN <<Order[orderId].user_id>> ELSE <<>>
    IN  IF orderId \notin DOMAIN Order THEN 404
        ELSE IF requester.role = "admin" THEN 200
        ELSE IF owner = <<>> THEN 500
        ELSE IF owner[1] # requester.id THEN 403
        ELSE 200

\* GET /orders/:id (any authenticated user): reads only
getOrderById(requester, orderId) ==
    /\ requester.id \in DOMAIN User
    /\ getOrderByIdCode(requester, orderId) \in {200, 403, 404, 500}
    /\ UNCHANGED vars

deleteUserCode(requester, userId) ==
    IF userId = requester.id THEN 400
    ELSE IF userId \notin DOMAIN User THEN 404
    ELSE 200

\* DELETE /users/admin/:userId (admin): orders and carts of the user stay
deleteUser(requester, userId) ==
    /\ requester.id \in DOMAIN User
    /\ requester.role = "admin"
    /\ User' = IF deleteUserCode(requester, userId) = 200
               THEN [u \in DOMAIN User \ {userId} |-> User[u]] ELSE User
    /\ UNCHANGED <<Product, Order, Cart, productIds, slot, stale, Product0,
                   addReq>>


\* a token of loginUser: the account's id and its stored role
Tokens == {[id |-> u, role |-> User[u]] : u \in DOMAIN User}

\* the role field of a register or update body: None when absent
RoleInputs == {None, "user", "admin", "root"}

\* an account id stands for its username and email
registerUserCode(userId, role) ==
    IF role # None /\ role \notin {"user", "admin"} THEN 400
    ELSE IF userId \in DOMAIN User THEN 409
    ELSE 201

\* POST /users/register (public): role = 'user' when the body has none
registerUser(userId, role) ==
    /\ User' = IF registerUserCode(userId, role) = 201
               THEN [u \in DOMAIN User \cup {userId} |->
                       IF u = userId
                       THEN (IF role = None THEN "user" ELSE role)
                       ELSE User[u]]
               ELSE User
    /\ UNCHANGED <<Product, Order, Cart, productIds, slot, stale, Product0,
                   addReq>>

\* userId is req.params.userId: None on PUT /users/profile, which has none
updateUserCode(requester, userId, role) ==
    IF userId = None THEN 400
    ELSE IF requester.role # "admin" /\ userId # requester.id THEN 403
    ELSE IF userId \notin DOMAIN User THEN 404
    ELSE IF role # None /\ requester.role # "admin" THEN 403
    ELSE IF role # None /\ role \notin {"user", "admin"} THEN 400
    ELSE 200

\* PUT /users/profile (userId None) and PUT /users/admin/:userId (admin)
updateUser(requester, userId, role) ==
    /\ requester.id \in DOMAIN User
    /\ userId # None => requester.role = "admin"
    /\ User' = IF updateUserCode(requester, userId, role) = 200 /\ role # None
               THEN [User EXCEPT ![userId] = role] ELSE User
    /\ UNCHANGED <<Product, Order, Cart, productIds, slot, stale, Product0,
                   addReq>>

changePasswordCode(requester, userId) ==
    IF requester.role # "admin" /\ userId # requester.id THEN 403
    ELSE IF userId \notin DOMAIN User THEN 404
    ELSE 200

\* PUT /users/change-password/:userId: writes the password alone
changePassword(requester, userId) ==
    /\ requester.id \in DOMAIN User
    /\ changePasswordCode(requester, userId) \in {200, 403, 404}
    /\ UNCHANGED vars

----------------------------------------------------------------------------
(* Catalog handlers (admin): single document writes outside any session   *)

\* Number.isInteger(quantity) && quantity >= 0 (quantities are integers here)
ValidQuantity(quantity) == quantity >= 0

\* a request body of updateProduct: each field absent (<<>>) or given (<<v>>);
\* set and inc are the update operators $set.quantity and $inc.quantity, which
\* findByIdAndUpdate applies as given
UpdateBodies ==
    {[quantity |-> <<q>>, price |-> <<>>, set |-> <<>>, inc |-> <<>>] :
        q \in {0 - 1, MaxStock}}
    \cup {[quantity |-> <<>>, price |-> <<x>>, set |-> <<>>, inc |-> <<>>] :
        x \in Prices}
    \cup {[quantity |-> <<>>, price |-> <<>>, set |-> <<0 - 1>>, inc |-> <<>>],
          [quantity |-> <<>>, price |-> <<>>, set |-> <<>>, inc |-> <<0 - 1>>]}

\* the document after findByIdAndUpdate(productId, updateData)
ApplyUpdate(doc, updateData) ==
    LET q1 == IF updateData.quantity # <<>> THEN updateData.quantity[1]
              ELSE IF updateData.set # <<>> THEN updateData.set[1]
              ELSE doc.quantity
        q2 == IF updateData.inc # <<>> THEN q1 + updateData.inc[1] ELSE q1
        x  == IF updateData.price # <<>> THEN updateData.price[1] ELSE doc.price
    IN  [quantity |-> q2, price |-> x]

createProductCode(quantity, price) ==
    IF ~ValidQuantity(quantity) \/ price <= 0 THEN 400 ELSE 201

\* POST /products
createProduct(productId, quantity, price) ==
    /\ productId \notin productIds
    /\ IF createProductCode(quantity, price) = 400
       THEN UNCHANGED <<Product, productIds>>
       ELSE /\ Product' = [p \in DOMAIN Product \cup {productId} |->
                             IF p = productId
                             THEN [quantity |-> quantity, price |-> price]
                             ELSE Product[p]]
            /\ productIds' = productIds \cup {productId}
    /\ UNCHANGED <<Order, Cart, slot, stale, Product0, User, addReq>>

updateProductCode(productId, updateData) ==
    IF updateData.quantity # <<>> /\ ~ValidQuantity(updateData.quantity[1])
    THEN 400
    ELSE IF productId \notin DOMAIN Product THEN 404
    ELSE 200

\* PUT /products/:id
updateProduct(productId, updateData) ==
    /\ IF updateProductCode(productId, updateData) # 200
       THEN UNCHANGED <<Product, stale>>
       ELSE /\ CanWrite({PKey(productId)})
            /\ ApplyUpdate(Product[productId], updateData).quantity >= 0 - 1
            /\ Product' = [Product EXCEPT ![productId] = ApplyUpdate(@, updateData)]
            /\ stale' = MarkStale(None, {PKey(productId)})
    /\ UNCHANGED <<Order, Cart, productIds, slot, Product0, User, addReq>>

updateProductQuantityCode(productId, quantity) ==
    IF ~ValidQuantity(quantity) THEN 400
    ELSE IF productId \notin DOMAIN Product THEN 404
    ELSE 200

\* PUT /products/:id/quantity
updateProductQuantity(productId, quantity) ==
    /\ IF updateProductQuantityCode(productId, quantity) # 200
       THEN UNCHANGED <<Product, stale>>
       ELSE /\ CanWrite({PKey(productId)})
            /\ Product' = [Product EXCEPT ![productId].quantity = quantity]
            /\ stale' = MarkStale(None, {PKey(productId)})
    /\ UNCHANGED <<Order, Cart, productIds, slot, Product0, User, addReq>>

\* DELETE /products/:id
deleteProduct(productId) ==
    /\ productId \in DOMAIN Product
    /\ CanWrite({PKey(productId)})
    /\ Product' = [p \in DOMAIN Product \ {productId} |-> Product[p]]
    /\ stale' = MarkStale(None, {PKey(productId)})
    /\ UNCHANGED <<Order, Cart, productIds, slot, Product0, User, addReq>>

----------------------------------------------------------------------------
(* Cart handlers: addItemToCart is two steps, its reads and checks up to   *)
(* the await of cart.save(), and the save; the other handlers are one step *)
(* each. A save sends the document's changes: a pushed line as $push, a    *)
(* line's new quantity as $set on its position under the version (__v) the *)
(* document was read with, a replaced array as $set that raises __v.       *)

\* cart.items.reduce((total, item) => total + item.quantity * item.price, 0)
RECURSIVE cartTotal(_)
cartTotal(items) ==
    IF items = <<>> THEN 0
    ELSE Head(items).quantity * Head(items).price + cartTotal(Tail(items))

\* cart.items.findIndex(item => item.product.toString() === productId
\*                              && item.size === sanitizedSize), 0 for -1
findIndex(items, productId, sanitizedSize) ==
    IF \E i \in 1..Len(items) :
          items[i].product = productId /\ items[i].size = sanitizedSize
    THEN CHOOSE i \in 1..Len(items) :
            /\ items[i].product = productId /\ items[i].size = sanitizedSize
            /\ \A j \in 1..(i - 1) :
                  ~(items[j].product = productId
                    /\ items[j].size = sanitizedSize)
    ELSE 0

\* cart.items.splice(itemIndex, 1)
splice(items, itemIndex) ==
    [j \in 1..(Len(items) - 1) |->
        IF j < itemIndex THEN items[j] ELSE items[j + 1]]

\* request bodies of addItemToCart: in and out of range quantities, the
\* product's size as it is listed, padded, and as the other type
AddBodies ==
    {[productId |-> "p1", quantity |-> q, size |-> z] :
        q \in {0, MaxQuantity, MaxQuantity + 1}, z \in {"s9", "s9sp", "n9"}}
    \cup {[productId |-> "p2", quantity |-> q, size |-> "n9"] :
            q \in {1, MaxStock}}

\* the answer of addItemToCart before its save: 201 stands for every check
\* passed
addItemToCartCode(user, body) ==
    LET sanitizedSize == sanitizeInput(body.size)
        parsedQuantity == body.quantity
        c == findOne(Cart, user)
        i == IF c = 0 THEN 0
             ELSE findIndex(Cart[c].items, body.productId, sanitizedSize)
    IN  IF body.productId = None \/ body.size = None THEN 400
        ELSE IF body.productId \notin ProductIds THEN 400
        ELSE IF parsedQuantity <= 0 \/ parsedQuantity > MaxQuantity THEN 400
        ELSE IF body.productId \notin DOMAIN Product THEN 404
        ELSE IF Product[body.productId].quantity < parsedQuantity THEN 400
        ELSE IF sanitizedSize \notin SizesOf(body.productId) THEN 400
        ELSE IF i # 0 /\ Cart[c].items[i].quantity + parsedQuantity
                             > Product[body.productId].quantity THEN 400
        ELSE 201

\* the change cart.save() will send
addItemToCartPlan(user, body) ==
    LET sanitizedSize == sanitizeInput(body.size)
        c == findOne(Cart, user)
        items == IF c = 0 THEN <<>> ELSE Cart[c].items
        i == findIndex(items, body.productId, sanitizedSize)
        item == [product |-> body.productId, quantity |-> body.quantity,
                 size |-> CastSizeToString(sanitizedSize),
                 price |-> Product[body.productId].price]
        newQuantity == IF i = 0 THEN 0 ELSE items[i].quantity + body.quantity
        local == IF i = 0 THEN Append(items, item)
                 ELSE [items EXCEPT ![i].quantity = newQuantity]
    IN  [IdleAdd EXCEPT !.pc = "save", !.user = user, !.cart = c,
                        !.op = IF c = 0 THEN "insert"
                               ELSE IF i = 0 THEN "push" ELSE "set",
                        !.index = i, !.item = <<item>>,
                        !.quantity = newQuantity,
                        !.total = cartTotal(local)]

PendingInserts ==
    {a \in AddSlots : addReq[a].pc = "save" /\ addReq[a].op = "insert"}

\* POST /cart/add up to the await of cart.save()
addItemToCart(a, user, body) ==
    /\ user \in DOMAIN User
    /\ addReq[a].pc \in {"idle", "done"}
    /\ IF addItemToCartCode(user, body) # 201
       THEN addReq' = [addReq EXCEPT ![a] =
                         [IdleAdd EXCEPT !.pc = "done",
                                         !.res = addItemToCartCode(user, body)]]
       ELSE LET plan == addItemToCartPlan(user, body)
            IN  /\ plan.op = "insert" =>
                      Len(Cart) + Cardinality(PendingInserts) < MaxCarts
                /\ plan.op = "push" =>
                      Len(Cart[plan.cart].items) < MaxCartLines
                /\ addReq' = [addReq EXCEPT ![a] = plan]
    /\ UNCHANGED <<Product, Order, Cart, productIds, slot, stale, Product0, User>>

\* a save that raises the cart's __v: every other request that has read the
\* cart now holds an old version
VersionRaised(reqs, a, c) ==
    [b \in AddSlots |->
        IF b # a /\ reqs[b].pc = "save" /\ reqs[b].cart = c
        THEN [reqs[b] EXCEPT !.staleV = TRUE] ELSE reqs[b]]

\* $set of items.<index>.quantity: on an array that has no such position the
\* store creates the element
SetQuantityReprice(items, index, quantity) ==
    IF index <= Len(items)
    THEN [items EXCEPT ![index].quantity = quantity,
                       ![index].price = Product[items[index].product].price]
    ELSE Append(items, [product |-> None, quantity |-> quantity,
                        size |-> None, price |-> 0])

SetQuantity(items, index, quantity) ==
    IF index <= Len(items) THEN [items EXCEPT ![index].quantity = quantity]
    ELSE Append(items, [product |-> None, quantity |-> quantity,
                        size |-> None, price |-> 0])

\* cart.save() of addItemToCart and its answer
saveCart(a) ==
    /\ addReq[a].pc = "save"
    /\ LET r == addReq[a]
           c == r.cart
           done(code) == [IdleAdd EXCEPT !.pc = "done", !.res = code]
       IN  IF r.op = "insert"
           THEN /\ Cart' = Append(Cart, [user |-> r.user, items |-> r.item,
                                         total |-> r.total])
                /\ addReq' = [addReq EXCEPT ![a] = done(201)]
                /\ UNCHANGED stale
           ELSE IF r.op = "push"
           THEN /\ CanWrite({CKey(c)})
                /\ Cart' = [Cart EXCEPT ![c].items = @ \o r.item,
                                        ![c].total = r.total]
                /\ addReq' = [VersionRaised(addReq, a, c) EXCEPT
                                 ![a] = done(201)]
                /\ stale' = MarkStale(None, {CKey(c)})
           ELSE IF r.staleV
           THEN /\ addReq' = [addReq EXCEPT ![a] = done(500)]
                /\ UNCHANGED <<Cart, stale>>
           ELSE /\ CanWrite({CKey(c)})
                /\ Cart' = [Cart EXCEPT
                              ![c].items = SetQuantity(@, r.index, r.quantity),
                              ![c].total = r.total]
                /\ addReq' = [addReq EXCEPT ![a] = done(201)]
                /\ stale' = MarkStale(None, {CKey(c)})
    /\ UNCHANGED <<Product, Order, productIds, slot, Product0, User>>

\* an item id of a request: the position of the line that holds it, 0 for an
\* id no line of the cart holds, -1 for a missing id or a string that is no
\* ObjectId
ItemIds == (0 - 1)..MaxCartLines

removeItemFromCartCode(user, itemId) ==
    LET c == findOne(Cart, user)
    IN  IF itemId < 0 THEN 400
        ELSE IF c = 0 THEN 404
        ELSE IF itemId \notin 1..Len(Cart[c].items) THEN 404
        ELSE 200

\* DELETE /cart/item/:itemId
removeItemFromCart(user, itemId) ==
    /\ user \in DOMAIN User
    /\ IF removeItemFromCartCode(user, itemId) # 200
       THEN UNCHANGED <<Cart, addReq, stale>>
       ELSE LET c == findOne(Cart, user)
                items == splice(Cart[c].items, itemId)
            IN  /\ CanWrite({CKey(c)})
                /\ Cart' = [Cart EXCEPT ![c].items = items,
                                        ![c].total = cartTotal(items)]
                /\ addReq' = VersionRaised(addReq, None, c)
                /\ stale' = MarkStale(None, {CKey(c)})
    /\ UNCHANGED <<Product, Order, productIds, slot, Product0, User>>

updateItemInCartCode(user, itemId, quantity) ==
    LET c == findOne(Cart, user)
        product == Cart[c].items[itemId].product
    IN  IF itemId < 0 THEN 400
        ELSE IF quantity < 0 \/ quantity > MaxQuantity THEN 400
        ELSE IF c = 0 THEN 404
        ELSE IF itemId \notin 1..Len(Cart[c].items) THEN 404
        ELSE IF quantity = 0 THEN 200
        ELSE IF product \in DOMAIN Product
                /\ quantity > Product[product].quantity THEN 400
        ELSE 200

\* PUT /cart/update
updateItemInCart(user, itemId, quantity) ==
    /\ user \in DOMAIN User
    /\ IF updateItemInCartCode(user, itemId, quantity) # 200
       THEN UNCHANGED <<Cart, addReq, stale>>
       ELSE LET c == findOne(Cart, user)
                items == IF quantity = 0 THEN splice(Cart[c].items, itemId)
                         ELSE [Cart[c].items EXCEPT ![itemId].quantity = quantity]
            IN  /\ CanWrite({CKey(c)})
                /\ Cart' = [Cart EXCEPT ![c].items = items,
                                        ![c].total = cartTotal(items)]
                /\ addReq' = IF quantity = 0
                             THEN VersionRaised(addReq, None, c) ELSE addReq
                /\ stale' = MarkStale(None, {CKey(c)})
    /\ UNCHANGED <<Product, Order, productIds, slot, Product0, User>>

clearCartCode(carts, user) == IF findOne(carts, user) = 0 THEN 404 ELSE 200

\* cart.items = []; cart.total = 0
clearedNoTotal(cart) == [cart EXCEPT !.items = <<>>]

cleared(cart) == [cart EXCEPT !.items = <<>>, !.total = 0]

\* the Cart collection after clearCart of the user
clearCartSaved(carts, user) ==
    [c \in DOMAIN carts |->
        IF c = findOne(carts, user) THEN cleared(carts[c]) ELSE carts[c]]

\* DELETE /cart/clear
clearCart(user) ==
    /\ user \in DOMAIN User
    /\ IF clearCartCode(Cart, user) # 200
       THEN UNCHANGED <<Cart, addReq, stale>>
       ELSE /\ CanWrite({CKey(findOne(Cart, user))})
            /\ Cart' = clearCartSaved(Cart, user)
            /\ addReq' = VersionRaised(addReq, None, findOne(Cart, user))
            /\ stale' = MarkStale(None, {CKey(findOne(Cart, user))})
    /\ UNCHANGED <<Product, Order, productIds, slot, Product0, User>>

----------------------------------------------------------------------------
(* Specifications *)

SeedPrice == 60 * Scale
SmallPrice == Scale \div 10

SeedCart ==
    <<[user |-> "u1",
       items |-> <<[product |-> "p1", quantity |-> 1, size |-> "s9",
                    price |-> SeedPrice]>>,
       total |-> SeedPrice]>>

OneSlot ==
    [t \in Slots |-> IF t = "t1" THEN IdleSlot ELSE [IdleSlot EXCEPT !.pc = "off"]]

\* a stocked catalog of two products, no order yet, one request slot
Init ==
    /\ Product = [p \in ProductIds |->
                    [quantity |-> MaxStock,
                     price |-> IF p = "p1" THEN SeedPrice ELSE SmallPrice]]
    /\ Product0 = Product
    /\ productIds = ProductIds
    /\ Order = EmptyFcn
    /\ Cart = SeedCart
    /\ slot = OneSlot
    /\ stale = [t \in Slots |-> {}]
    /\ User = SeedUsers
    /\ addReq = [a \in AddSlots |-> IdleAdd]

\* a catalog of one product; the admin creates the other
InitCatalog ==
    /\ Product = [p \in {"p1"} |-> [quantity |-> MaxStock, price |-> SeedPrice]]
    /\ Product0 = Product
    /\ productIds = {"p1"}
    /\ Order = EmptyFcn
    /\ Cart = SeedCart
    /\ slot = OneSlot
    /\ stale = [t \in Slots |-> {}]
    /\ User = SeedUsers
    /\ addReq = [a \in AddSlots |-> IdleAdd]

PlacementBy(users, bodies, totals) ==
    \E t \in Slots :
        \/ \E u \in users, b \in bodies, x \in totals : createOrder(t, u, b, x)
        \/ startTransaction(t)
        \/ processItem(t)
        \/ \E f \in BOOLEAN : saveOrder(t, f)
        \/ \E f \in BOOLEAN : clearUserCart(t, f)
        \/ commitOrder(t)

Lifecycle ==
    \/ \E o \in 1..MaxOrders, st \in StatusInputs, f \in 0..(MaxLines + 1) :
           updateOrderStatus(o, st, f)
    \/ \E r \in Requesters, o \in 1..MaxOrders, f \in 0..(MaxLines + 1) :
           deleteOrder(r, o, f)

Removal == \E p \in ProductIds : deleteProduct(p)

Catalog ==
    \/ \E p \in ProductIds, q \in {0 - 1, MaxStock}, x \in Prices :
           createProduct(p, q, x)
    \/ \E p \in ProductIds, b \in UpdateBodies : updateProduct(p, b)
    \/ \E p \in ProductIds, q \in (0 - 1)..MaxStock : updateProductQuantity(p, q)

Next == PlacementBy(Users, Bodies, {0}) \/ Lifecycle \/ Removal

Spec == Init /\ [][Next]_vars

NextCatalog == PlacementBy({"u1"}, ValidBodies, {0}) \/ Catalog

SpecCatalog == InitCatalog /\ [][NextCatalog]_vars

\* two placements competing for the same stock, both started, no other request:
\* the stock of every product covers either body, and of some product not both
Competing(b1, b2, catalog) ==
    /\ \A p \in ProductIds : LineQty(b1, p) <= catalog[p].quantity
                            /\ LineQty(b2, p) <= catalog[p].quantity
    /\ \E p \in ProductIds : LineQty(b1, p) + LineQty(b2, p) > catalog[p].quantity

InitConc ==
    /\ \E s1, s2 \in 0..MaxStock :
          Product = [p \in ProductIds |->
                       [quantity |-> IF p = "p1" THEN s1 ELSE s2,
                        price |-> IF p = "p1" THEN SeedPrice ELSE SmallPrice]]
    /\ Product0 = Product
    /\ productIds = ProductIds
    /\ Order = EmptyFcn
    /\ Cart = SeedCart
    /\ \E b1, b2 \in ValidBodies, u1, u2 \in Users :
          /\ Competing(b1, b2, Product)
          /\ slot = [t \in Slots |->
                       [IdleSlot EXCEPT !.pc = "begin",
                                        !.user = IF t = "t1" THEN u1 ELSE u2,
                                        !.products = IF t = "t1" THEN b1 ELSE b2]]
    /\ stale = [t \in Slots |-> {}]
    /\ User = SeedUsers
    /\ addReq = [a \in AddSlots |-> IdleAdd]

NextConc ==
    \E t \in Slots :
        \/ startTransaction(t)
        \/ processItem(t)
        \/ saveOrder(t, FALSE)
        \/ clearUserCart(t, FALSE)
        \/ commitOrder(t)

SpecConc == InitConc /\ [][NextConc]_vars

\* two placements of different products, both started, no other request: the
\* first names p1 alone, the second p2 alone, and the stock covers each
Disjoint(b1, b2, catalog) ==
    /\ \A j \in 1..Len(b1) : b1[j].product_id = "p1"
    /\ \A j \in 1..Len(b2) : b2[j].product_id = "p2"
    /\ \A p \in ProductIds : LineQty(b1, p) + LineQty(b2, p) <= catalog[p].quantity

InitDisjoint ==
    /\ \E s1, s2 \in 0..MaxStock :
          Product = [p \in ProductIds |->
                       [quantity |-> IF p = "p1" THEN s1 ELSE s2,
                        price |-> IF p = "p1" THEN SeedPrice ELSE SmallPrice]]
    /\ Product0 = Product
    /\ productIds = ProductIds
    /\ Order = EmptyFcn
    /\ Cart = SeedCart
    /\ \E b1, b2 \in ValidBodies, u1, u2 \in Users :
          /\ Disjoint(b1, b2, Product)
          /\ slot = [t \in Slots |->
                       [IdleSlot EXCEPT !.pc = "begin",
                                        !.user = IF t = "t1" THEN u1 ELSE u2,
                                        !.products = IF t = "t1" THEN b1 ELSE b2]]
    /\ stale = [t \in Slots |-> {}]
    /\ User = SeedUsers
    /\ addReq = [a \in AddSlots |-> IdleAdd]

\* the next step of the placement in slot t
PlacementStep(t) ==
    \/ startTransaction(t)
    \/ processItem(t)
    \/ saveOrder(t, FALSE)
    \/ clearUserCart(t, FALSE)
    \/ commitOrder(t)

NextDisjoint == \E t \in Slots : PlacementStep(t)

\* every request handler that can take a step eventually takes it
SpecDisjoint ==
    /\ InitDisjoint
    /\ [][NextDisjoint]_vars
    /\ \A t \in Slots : WF_vars(PlacementStep(t))

\* orders of one line, read and deleted by every requester, while the admin
\* deletes accounts
AccessBodies == {<<v>> : v \in {x \in ValidItems : x.quantity = 1}}

Access ==
    \/ \E r \in Requesters, o \in 1..MaxOrders : getOrderById(r, o)
    \/ \E r \in Requesters, u \in Accounts : deleteUser(r, u)

NextAccess == PlacementBy(Users, AccessBodies, {0}) \/ Lifecycle \/ Access

SpecAccess == Init /\ [][NextAccess]_vars

\* placements alone, of one user: prices at and next to the free-shipping
\* threshold, and a client total given or not
BoundaryPrices == {FreeShippingOver \div MaxReqQty,
                   FreeShippingOver \div MaxReqQty + 1, SeedPrice}

ClientTotals == {0, Scale}

InitPlacement ==
    /\ \E x \in BoundaryPrices :
          Product = [p \in ProductIds |->
                       [quantity |-> MaxStock,
                        price |-> IF p = "p1" THEN x ELSE SmallPrice]]
    /\ Product0 = Product
    /\ productIds = ProductIds
    /\ Order = EmptyFcn
    /\ Cart = SeedCart
    /\ slot = OneSlot
    /\ stale = [t \in Slots |-> {}]
    /\ User = SeedUsers
    /\ addReq = [a \in AddSlots |-> IdleAdd]

NextPlacement == PlacementBy({"u1"}, ValidBodies, ClientTotals)

SpecPlacement == InitPlacement /\ [][NextPlacement]_vars

\* registration, profile and role updates, password changes and deletions
NextUsers ==
    \/ \E u \in Accounts \cup NewAccounts, x \in RoleInputs : registerUser(u, x)
    \/ \E r \in Tokens, u \in DOMAIN User \cup {None}, x \in RoleInputs :
           updateUser(r, u, x)
    \/ \E r \in Tokens, u \in Accounts \cup NewAccounts : changePassword(r, u)
    \/ \E r \in Tokens, u \in Accounts \cup NewAccounts : deleteUser(r, u)

SpecUsers == Init /\ [][NextUsers]_vars

\* a catalog with stock above the largest line quantity for one product and
\* small stock for the other, u1's cart of one line, u2 without a cart
InitCart ==
    /\ Product = [p \in ProductIds |->
                    IF p = "p1"
                    THEN [quantity |-> MaxQuantity + 1, price |-> SeedPrice]
                    ELSE [quantity |-> MaxStock, price |-> SmallPrice]]
    /\ Product0 = Product
    /\ productIds = ProductIds
    /\ Order = EmptyFcn
    /\ Cart = SeedCart
    /\ slot = [t \in Slots |-> [IdleSlot EXCEPT !.pc = "off"]]
    /\ stale = [t \in Slots |-> {}]
    /\ User = SeedUsers
    /\ addReq = [a \in AddSlots |->
                   IF a = "c1" THEN IdleAdd ELSE [IdleAdd EXCEPT !.pc = "off"]]

NextCart ==
    \/ \E a \in AddSlots, u \in Users, b \in AddBodies : addItemToCart(a, u, b)
    \/ \E a \in AddSlots : saveCart(a)
    \/ \E u \in Users, i \in ItemIds : removeItemFromCart(u, i)
    \/ \E u \in Users, i \in ItemIds, q \in {0, 1, MaxQuantity, MaxQuantity + 1} :
           updateItemInCart(u, i, q)
    \/ \E u \in Users : clearCart(u)

SpecCart == InitCart /\ [][NextCart]_vars

\* two addItemToCart requests in flight at a time, of a user without a cart
InitCartConc ==
    /\ Product = [p \in ProductIds |->
                    [quantity |-> MaxStock,
                     price |-> IF p = "p1" THEN SeedPrice ELSE SmallPrice]]
    /\ Product0 = Product
    /\ productIds = ProductIds
    /\ Order = EmptyFcn
    /\ Cart = SeedCart
    /\ slot = [t \in Slots |-> [IdleSlot EXCEPT !.pc = "off"]]
    /\ stale = [t \in Slots |-> {}]
    /\ User = SeedUsers
    /\ addReq = [a \in AddSlots |-> IdleAdd]

ConcBodies ==
    {[productId |-> p, quantity |-> 1,
      size |-> IF p = "p1" THEN "s9" ELSE "n9"] : p \in ProductIds}

NextCartConc ==
    \/ \E a \in AddSlots, b \in ConcBodies : addItemToCart(a, "u2", b)
    \/ \E a \in AddSlots : saveCart(a)

SpecCartConc == InitCartConc /\ [][NextCartConc]_vars

\* one user's adds and removals while the admin changes prices
PriceBodies ==
    {[quantity |-> <<>>, price |-> <<x>>, set |-> <<>>, inc |-> <<>>] :
        x \in Prices}

InitCartPrice ==
    /\ Product = [p \in ProductIds |->
                    [quantity |-> MaxStock,
                     price |-> IF p = "p1" THEN SeedPrice ELSE SmallPrice]]
    /\ Product0 = Product
    /\ productIds = ProductIds
    /\ Order = EmptyFcn
    /\ Cart = SeedCart
    /\ slot = [t \in Slots |-> [IdleSlot EXCEPT !.pc = "off"]]
    /\ stale = [t \in Slots |-> {}]
    /\ User = SeedUsers
    /\ addReq = [a \in AddSlots |->
                   IF a = "c1" THEN IdleAdd ELSE [IdleAdd EXCEPT !.pc = "off"]]

NextCartPrice ==
    \/ \E a \in AddSlots, u \in Users, b \in ConcBodies : addItemToCart(a, u, b)
    \/ \E a \in AddSlots : saveCart(a)
    \/ \E u \in Users, i \in ItemIds : removeItemFromCart(u, i)
    \/ \E p \in ProductIds, b \in PriceBodies : updateProduct(p, b)

SpecCartPrice == InitCartPrice /\ [][NextCartPrice]_vars

----------------------------------------------------------------------------
(* Properties *)

Committed(t) == slot'[t].pc = "done" /\ slot'[t].res.status = 201

\* C1: every step of a placement other than its successful commit, the failing
\* step included, leaves every product's stock, the orders and the carts as
\* they were: a failed request has no effect, whatever it had decremented
AllOrNothing ==
    [][\A t \in Slots :
          (slot'[t] # slot[t] /\ ~Committed(t))
              => UNCHANGED <<Product, Order, Cart>>]_vars

\* a placement has failed after an earlier line of it was decremented
FailedAfterDecrement ==
    \E t \in Slots : /\ slot[t].pc = "done"
                     /\ slot[t].res.error = "Insufficient"
                     /\ slot[t].i > 1

\* C2: when two competing placements have both ended, exactly one has committed
\* its order, the other ended with the insufficient-stock or sold-out error,
\* and the stock is the initial stock less the winner's quantities alone
BothDone == \A t \in Slots : slot[t].pc = "done"

OneWinner ==
    BothDone =>
        /\ \E w \in Slots :
              /\ slot[w].res.status = 201
              /\ \A l \in Slots \ {w} :
                    slot[l].res.error \in {"Insufficient", "SoldOut"}
        /\ Cardinality(DOMAIN Order) = 1
        /\ \A o \in DOMAIN Order :
              /\ \A p \in ProductIds :
                    Product[p].quantity =
                        Product0[p].quantity - LineQty(Order[o].products, p)
              /\ Cart = ClearedCart(SeedCart, Order[o].user_id)

\* both competing placements have ended and one of them lost the race it had
\* passed the stock check of
RaceDecided ==
    /\ BothDone
    /\ \E l \in Slots : slot[l].res.error = "Insufficient"
    /\ \E p \in ProductIds : Product[p].quantity = 0 /\ Product0[p].quantity > 0

\* C3: every product's stock is at least 0
StockNeverNegative == \A p \in DOMAIN Product : Product[p].quantity >= 0

\* C4: the commit of a placement leaves each product's stock at its stock
\* before the commit less the total quantity the request asks of it, and so
\* the stock of a product the request does not name unchanged
ExactDecrement ==
    [][\A t \in Slots :
          (slot[t].pc = "commit" /\ Committed(t)) =>
              /\ DOMAIN Product' = DOMAIN Product
              /\ \A p \in DOMAIN Product :
                    Product'[p].quantity =
                        Product[p].quantity - LineQty(slot[t].products, p)]_vars

\* an order of the largest quantity was placed on a product and left its
\* stock that much lower, the other product's stock untouched
PlacedLargest ==
    \E o \in DOMAIN Order, p \in DOMAIN Product :
        /\ LineQty(Order[o].products, p) = MaxReqQty
        /\ Product[p].quantity = Product0[p].quantity - MaxReqQty
        /\ \A r \in DOMAIN Product \ {p} :
              /\ LineQty(Order[o].products, r) = 0
              /\ Product[r].quantity = Product0[r].quantity

\* C5: every stored order has total_amount = subtotal + shipping
TotalIsSubtotalPlusShipping ==
    \A o \in DOMAIN Order :
        Order[o].total_amount = Order[o].subtotal + Order[o].shipping

\* C6: every stored order's subtotal is the sum of price * quantity over its
\* lines; at the commit each line's price is the product's catalog price; and
\* no later step changes a stored order's lines or subtotal
SubtotalFromCatalog ==
    /\ [](\A o \in DOMAIN Order :
             Order[o].subtotal = LinesTotal(Order[o].products))
    /\ [][\A t \in Slots :
             (slot[t].pc = "commit" /\ Committed(t)) =>
                 \A o \in DOMAIN Order' \ DOMAIN Order :
                     \A j \in 1..Len(Order'[o].products) :
                         /\ Order'[o].products[j].product_id \in DOMAIN Product
                         /\ Order'[o].products[j].price =
                              Product[Order'[o].products[j].product_id].price]_vars
    /\ [][\A o \in DOMAIN Order \cap DOMAIN Order' :
             /\ Order'[o].products = Order[o].products
             /\ Order'[o].subtotal = Order[o].subtotal]_vars

\* a stored order keeps the price of its placement after the catalog price
\* of its product has changed
PriceChangedLater ==
    \E o \in DOMAIN Order :
        /\ Order[o].subtotal = LinesTotal(Order[o].products)
        /\ \E j \in 1..Len(Order[o].products) :
              LET line == Order[o].products[j]
              IN  /\ line.product_id \in DOMAIN Product
                  /\ line.price # Product[line.product_id].price

\* C7: an order's status changes only along the allowed edges
AllowedEdges ==
    {<<"Pending", "Processing">>, <<"Processing", "Shipped">>,
     <<"Shipped", "Delivered">>, <<"Pending", "Cancelled">>,
     <<"Processing", "Cancelled">>}

OnlyAllowedEdges ==
    [][\A o \in DOMAIN Order \cap DOMAIN Order' :
          Order'[o].order_status # Order[o].order_status =>
              <<Order[o].order_status, Order'[o].order_status>>
                  \in AllowedEdges]_vars

\* C8: an updateOrderStatus request for a pair that is no allowed edge is
\* answered 4xx and changes neither the order nor any stock
DisallowedRejected ==
    [][\A o \in DOMAIN Order, st \in validStatuses :
          (updateOrderStatus(o, st, 0)
           /\ <<Order[o].order_status, st>> \notin AllowedEdges) =>
              /\ updateOrderStatusCode(o, st, 0) \in 400..499
              /\ UNCHANGED <<Order, Product>>]_vars

\* C9: a step that takes an order from Pending or Processing to Cancelled
\* raises each existing product's stock by the quantities of the order's lines
\* of that product and changes no other stock; an updateOrderStatus request
\* the store fails changes nothing, and one that changes a stock has cancelled
\* the order
CancelRestores ==
    /\ [][\A o \in DOMAIN Order \cap DOMAIN Order' :
             (Order[o].order_status \in {"Pending", "Processing"}
              /\ Order'[o].order_status = "Cancelled") =>
                 /\ DOMAIN Product' = DOMAIN Product
                 /\ \A p \in DOMAIN Product :
                       Product'[p].quantity =
                           Product[p].quantity
                           + LineQty(Order[o].products, p)]_vars
    /\ [][\A o \in 1..MaxOrders, st \in StatusInputs, f \in 0..(MaxLines + 1) :
             updateOrderStatus(o, st, f) =>
                 /\ f > 0 => UNCHANGED <<Product, Order>>
                 /\ Product' # Product =>
                       /\ o \in DOMAIN Order
                       /\ Order[o].order_status \in {"Pending", "Processing"}
                       /\ Order'[o].order_status = "Cancelled"]_vars

\* an order of two lines was cancelled and its product has its initial stock
\* again
CancelledAndRestored ==
    \E o \in DOMAIN Order, p \in DOMAIN Product :
        /\ Order[o].order_status = "Cancelled"
        /\ Len(Order[o].products) = MaxLines
        /\ LineQty(Order[o].products, p) > 0
        /\ Product[p].quantity = Product0[p].quantity

\* C10: a step that removes an order raises each existing product's stock by
\* the order's quantities of it when the order was Pending or Processing, and
\* leaves every stock unchanged when it was Shipped, Delivered or Cancelled
DeleteRestores ==
    [][\A o \in DOMAIN Order \ DOMAIN Order' :
          /\ DOMAIN Product' = DOMAIN Product
          /\ \A p \in DOMAIN Product :
                Product'[p].quantity =
                    Product[p].quantity
                    + (IF Order[o].order_status \in {"Pending", "Processing"}
                       THEN LineQty(Order[o].products, p) ELSE 0)]_vars

\* u1's order was placed and deleted, and the stock is the initial stock again
DeletedAndRestored ==
    /\ Order = EmptyFcn
    /\ Cart[findOne(Cart, "u1")].items = <<>>
    /\ Product = Product0
    /\ \E t \in Slots : slot[t].pc = "done" /\ slot[t].res.status = 201

\* C11: a deleteOrder request of an authenticated requester who is no admin
\* and does not own the order is answered 403, and the step it takes leaves
\* the orders and every product's stock as they were
NotOwnerNorAdmin(r, o) ==
    r.id \in DOMAIN User /\ r.role # "admin" /\ Order[o].user_id # r.id

DeleteDenied ==
    /\ [](\A r \in Requesters, o \in DOMAIN Order :
             NotOwnerNorAdmin(r, o) => deleteOrderCode(r, o, 0) = 403)
    /\ [][\A r \in Requesters, o \in DOMAIN Order :
             (NotOwnerNorAdmin(r, o) /\ deleteOrder(r, o, 0))
                 => UNCHANGED <<Order, Product>>]_vars

\* a Pending order whose stock is still reserved, and a user who does not own
\* it and is answered 403
DeniedDelete ==
    \E r \in Requesters, o \in DOMAIN Order :
        /\ NotOwnerNorAdmin(r, o)
        /\ deleteOrderCode(r, o, 0) = 403
        /\ Order[o].order_status = "Pending"
        /\ \E p \in DOMAIN Product :
              Product[p].quantity < Product0[p].quantity

\* C12: getOrderById answers an authenticated requester 200 exactly when the
\* requester is an admin or owns the order, and 403 otherwise
OwnerOrAdminOnly ==
    \A r \in Requesters, o \in DOMAIN Order :
        r.id \in DOMAIN User =>
            LET allowed == r.role = "admin" \/ Order[o].user_id = r.id
            IN  /\ getOrderByIdCode(r, o) = 200 <=> allowed
                /\ ~allowed => getOrderByIdCode(r, o) = 403

\* C13: every line of every cart has a quantity between 1 and 10
LineQuantityInRange ==
    \A c \in DOMAIN Cart : \A i \in 1..Len(Cart[c].items) :
        Cart[c].items[i].quantity \in 1..MaxQuantity

\* C14: an addItemToCart request for a product and size the user's cart holds
\* a line of, whose quantity added to the line's exceeds the product's stock,
\* is answered with a client error
SameLine(item, body) ==
    /\ item.product = body.productId
    /\ item.size = CastSizeToString(sanitizeInput(body.size))

OverStockAddRejected ==
    \A u \in Users, b \in AddBodies :
        LET c == findOne(Cart, u)
        IN  (/\ c # 0
             /\ b.productId \in DOMAIN Product
             /\ \E i \in 1..Len(Cart[c].items) :
                   /\ SameLine(Cart[c].items[i], b)
                   /\ Cart[c].items[i].quantity + b.quantity
                          > Product[b.productId].quantity)
            => addItemToCartCode(u, b) \in 400..499

\* C15: every cart's total is the sum of quantity * price over its lines
CartTotalIsSum ==
    \A c \in DOMAIN Cart : Cart[c].total = cartTotal(Cart[c].items)

\* C16: clearCart of a user who has a cart leaves that cart with no lines and
\* total 0 and every other cart as it was, and clearCart applied to the
\* result answers 200 again and changes nothing
ClearIdempotent ==
    /\ [](\A u \in Users :
             clearCartCode(Cart, u) = 200 =>
                 LET once == clearCartSaved(Cart, u)
                     c == findOne(Cart, u)
                 IN  /\ once[c].items = <<>> /\ once[c].total = 0
                     /\ \A d \in DOMAIN Cart \ {c} : once[d] = Cart[d]
                     /\ clearCartCode(once, u) = 200
                     /\ clearCartSaved(once, u) = once)
    /\ [][\A u \in Users :
             (clearCart(u) /\ clearCartCode(Cart, u) = 200)
                 => Cart' = clearCartSaved(Cart, u)]_vars

\* a cart that held a line has none and total 0, and its user's clearCart is
\* answered 200
ClearedCartState ==
    \E u \in Users :
        /\ clearCartCode(Cart, u) = 200
        /\ Cart[findOne(Cart, u)].items = <<>>
        /\ Cart[findOne(Cart, u)].total = 0
        /\ clearCartSaved(Cart, u) = Cart

\* C17: the commit of a placement leaves the number of carts and their users
\* as they were, the placing user's cart with no lines and total 0, and every
\* other cart unchanged
PlacementEmptiesCart ==
    [][\A t \in Slots :
          (slot[t].pc = "commit" /\ Committed(t)) =>
              /\ Len(Cart') = Len(Cart)
              /\ \A c \in DOMAIN Cart :
                    IF c = findOne(Cart, slot[t].user)
                    THEN Cart'[c] = [user |-> slot[t].user, items |-> <<>>,
                                     total |-> 0]
                    ELSE Cart'[c] = Cart[c]]_vars

\* u1's order is stored and u1's cart is there with no lines and total 0
PlacedAndEmptied ==
    \E o \in DOMAIN Order :
        /\ Order[o].user_id = "u1"
        /\ Len(Cart) = Len(SeedCart)
        /\ Cart[findOne(Cart, "u1")].items = <<>>
        /\ Cart[findOne(Cart, "u1")].total = 0

\* C18: no two carts have the same user
OneCartPerUser ==
    \A c, d \in DOMAIN Cart : Cart[c].user = Cart[d].user => c = d

\* C19: a createOrder request that ended on an empty body, a line with a
\* missing field or a quantity of 0, a malformed product id or a quantity out
\* of range was answered 4xx
MalformedIsClientError ==
    \A t \in Slots :
        (/\ slot[t].pc = "done"
         /\ slot[t].res.error \in {"EmptyProducts", "MissingField",
                                   "InvalidId", "InvalidQuantity"})
            => slot[t].res.status \in 400..499

\* C20: a createOrder request that ended on insufficient stock or on a
\* conditional decrement that modified nothing was answered 409
StockFailureIsConflict ==
    \A t \in Slots :
        (/\ slot[t].pc = "done"
         /\ slot[t].res.error \in {"Insufficient", "SoldOut"})
            => slot[t].res.status = 409


\* C21: every stored order's shipping is 10 when its subtotal is at most 100
\* and 0 when its subtotal is above 100
ShippingRule ==
    \A o \in DOMAIN Order :
        Order[o].shipping =
            IF Order[o].subtotal <= 100 * Scale THEN 10 * Scale ELSE 0

\* an order of subtotal exactly 100 is stored with shipping 10, placed for a
\* price whose next higher price ships free
AtThreshold ==
    \E o \in DOMAIN Order :
        /\ Order[o].subtotal = 100 * Scale
        /\ Order[o].shipping = 10 * Scale


\* C25: two placements of different products, each within stock, both end,
\* and when they have ended both have committed, two orders are stored, and
\* every product's stock is the initial stock less the quantity that the
\* request naming it asked for
BothCommit ==
    /\ <>BothDone
    /\ [](BothDone =>
            /\ \A t \in Slots : slot[t].res.status = 201
            /\ Cardinality(DOMAIN Order) = Cardinality(Slots)
            /\ \A p \in ProductIds :
                  \E o \in DOMAIN Order :
                      /\ \A j \in 1..Len(Order[o].products) :
                            Order[o].products[j].product_id = p
                      /\ Product[p].quantity =
                            Product0[p].quantity - LineQty(Order[o].products, p))

\* both placements have ended with an order each, and the stock of both
\* products is below the initial stock
BothPlaced ==
    /\ BothDone
    /\ Cardinality(DOMAIN Order) = Cardinality(Slots)
    /\ \A p \in ProductIds : Product[p].quantity < Product0[p].quantity

\* C26: a placement that ends on insufficient stock does so at the first line
\* up to which the request's quantities of the line's product exceed the
\* product's stock, and leaves stock, orders and carts as they were; a
\* placement that commits asks of every product at most its stock
PrefixQty(products, n, p) == LineQty(SubSeq(products, 1, n), p)

LinesInOrder ==
    [][\A t \in Slots :
          /\ (/\ slot[t].pc = "loop"
              /\ slot'[t].pc = "done"
              /\ slot'[t].res.error \in {"Insufficient", "SoldOut"}) =>
                 LET p == slot[t].products[slot[t].i].product_id
                 IN  /\ PrefixQty(slot[t].products, slot[t].i, p)
                            > Product[p].quantity
                     /\ \A j \in 1..(slot[t].i - 1), r \in DOMAIN Product :
                           PrefixQty(slot[t].products, j, r)
                               <= Product[r].quantity
                     /\ UNCHANGED <<Product, Order, Cart>>
          /\ (slot[t].pc = "commit" /\ Committed(t)) =>
                 \A r \in DOMAIN Product :
                     LineQty(slot[t].products, r) <= Product[r].quantity]_vars

\* a request was refused at its last line after an earlier line of it, and
\* the stock is the initial stock
LaterLineRefused ==
    \E t \in Slots :
        /\ slot[t].pc = "done"
        /\ slot[t].res.error = "Insufficient"
        /\ slot[t].i = MaxLines
        /\ Product = Product0
        /\ Order = EmptyFcn

OrderFrame ==
    [][\A o \in DOMAIN Order \cap DOMAIN Order' :
          /\ Order'[o].user_id = Order[o].user_id
          /\ Order'[o].products = Order[o].products
          /\ Order'[o].subtotal = Order[o].subtotal
          /\ Order'[o].shipping = Order[o].shipping
          /\ Order'[o].total_amount = Order[o].total_amount]_vars

\* an order whose status was changed and saved again, with a shipping fee and
\* a total_amount that is not subtotal plus shipping
StatusChangedOnly ==
    \E o \in DOMAIN Order :
        /\ Order[o].order_status = "Shipped"
        /\ Order[o].shipping > 0
        /\ Order[o].total_amount # Order[o].subtotal + Order[o].shipping


\* C23: the line an add prepares carries the catalog price the add read, the
\* line its save stores is that line, and a step that removes no line of a
\* cart leaves product, size and price of every line of the cart as they
\* were; the save of a merging add changes the quantity of its line alone
CartPriceFrame ==
    [][/\ \A a \in AddSlots :
             (addReq[a].pc \in {"idle", "done"} /\ addReq'[a].pc = "save") =>
                 \E p \in DOMAIN Product :
                     /\ addReq'[a].item[1].product = p
                     /\ addReq'[a].item[1].price = Product[p].price
       /\ \A a \in AddSlots :
             (/\ addReq[a].pc = "save"
              /\ addReq[a].op \in {"insert", "push"}
              /\ addReq'[a].pc = "done") =>
                 LET c == IF addReq[a].op = "insert" THEN Len(Cart')
                          ELSE addReq[a].cart
                 IN  /\ Len(Cart'[c].items) > 0
                     /\ Cart'[c].items[Len(Cart'[c].items)] = addReq[a].item[1]
       /\ \A c \in DOMAIN Cart :
             Len(Cart'[c].items) >= Len(Cart[c].items) =>
                 \A i \in 1..Len(Cart[c].items) :
                     /\ Cart'[c].items[i].product = Cart[c].items[i].product
                     /\ Cart'[c].items[i].size = Cart[c].items[i].size
                     /\ Cart'[c].items[i].price = Cart[c].items[i].price
       /\ \A a \in AddSlots :
             (/\ addReq[a].pc = "save"
              /\ addReq[a].op = "set"
              /\ addReq'[a].res = 201) =>
                 /\ Len(Cart'[addReq[a].cart].items)
                        = Len(Cart[addReq[a].cart].items)
                 /\ \A i \in 1..Len(Cart[addReq[a].cart].items) :
                       i # addReq[a].index =>
                           Cart'[addReq[a].cart].items[i]
                               = Cart[addReq[a].cart].items[i]]_vars

\* a line that an add has merged into holds a price that is no longer the
\* product's catalog price
MergedAtOldPrice ==
    \E c \in DOMAIN Cart : \E i \in 1..Len(Cart[c].items) :
        /\ Cart[c].items[i].quantity >= 2
        /\ Cart[c].items[i].product \in DOMAIN Product
        /\ Cart[c].items[i].price # Product[Cart[c].items[i].product].price

\* C24: a deleteOrder request of a requester who is no admin is answered 200
\* only for an order the requester owns and whose status is Pending, and a
\* step of such a request removes only such an order
NonAdminDeletesOwnPending ==
    /\ [](\A r \in Requesters, o \in DOMAIN Order :
             (/\ r.id \in DOMAIN User
              /\ r.role # "admin"
              /\ deleteOrderCode(r, o, 0) = 200)
                 => /\ Order[o].user_id = r.id
                    /\ Order[o].order_status = "Pending")
    /\ [][\A r \in Requesters, o \in DOMAIN Order :
             (/\ r.role # "admin"
              /\ deleteOrder(r, o, 0)
              /\ o \notin DOMAIN Order')
                 => /\ Order[o].user_id = r.id
                    /\ Order[o].order_status = "Pending"]_vars

\* C28: for every product, the stock plus the quantity of it on the orders
\* that exist and are not Cancelled is at most the initial stock
RECURSIVE HeldBy(_, _)
HeldBy(ids, p) ==
    IF ids = {} THEN 0
    ELSE LET o == CHOOSE x \in ids : TRUE
         IN  (IF Order[o].order_status # "Cancelled"
              THEN LineQty(Order[o].products, p) ELSE 0)
             + HeldBy(ids \ {o}, p)

RestoredAtMostOnce ==
    \A p \in DOMAIN Product :
        Product[p].quantity + HeldBy(DOMAIN Order, p) <= Product0[p].quantity

\* C29: no cart holds two lines of the same product and size
NoDuplicateLines ==
    \A c \in DOMAIN Cart :
        \A i, j \in 1..Len(Cart[c].items) :
            i # j => ~(/\ Cart[c].items[i].product = Cart[c].items[j].product
                       /\ Cart[c].items[i].size = Cart[c].items[j].size)

\* C30: a step leaves an account with the admin role only if the account had
\* it before the step, or the step is an updateUser request of an admin
OnlyAdminsGrantAdmin ==
    [][\A u \in DOMAIN User' :
          User'[u] = "admin" =>
              \/ u \in DOMAIN User /\ User[u] = "admin"
              \/ \E r \in Tokens :
                    r.role = "admin" /\ updateUser(r, u, "admin")]_vars

====
